---- MODULE Spec2Model ----
(***************************************************************************)
(* The client-side transaction commit task of RAMCloud                     *)
(* (src/src/ClientTransactionTask.cc): the commit cache, the participant   *)
(* list, the prepare and decision RPC pipelines and the state machine      *)
(* INIT -> PREPARE -> DECISION -> DONE that performTask drives.            *)
(*                                                                         *)
(* One action per operation of the task (insertCacheEntry, performTask)    *)
(* and per callback of the transport (an RPC's response arriving, an RPC   *)
(* failing at transport level).  performTask is one atomic action: the     *)
(* task runs on the client's poll thread and nothing interleaves with it.  *)
(***************************************************************************)
EXTENDS Integers, Sequences, FiniteSets, TLC

\* ------------------------------------------------------------------ bounds
\* Largest number of operations staged in one transaction.
MaxEntries == 3
\* Largest number of recoverable faults (transport failures and
\* STATUS_UNKNOWN_TABLET responses) in one run.
MaxFaults == 1

\* PrepareRpc::MAX_OBJECTS_PER_RPC and DecisionRpc::MAX_OBJECTS_PER_RPC.
MAX_OBJECTS_PER_RPC == 2

TableIds == {1, 2}
KeyHashes == {1}
\* Service locators of the masters.
Masters == {"m1", "m2"}
\* What rpcTracker.newRpcIdBlock returns: the tracker has handed out the ids
\* below it to earlier RPCs of the client.
TxIdStarts == {4}

CacheKeys == [tableId : TableIds, keyHash : KeyHashes]

STATUS_OK == "STATUS_OK"
STATUS_UNKNOWN_TABLET == "STATUS_UNKNOWN_TABLET"
\* Server statuses other than OK and UNKNOWN_TABLET: all fatal to the task.
FatalStatuses == {"STATUS_OBJECT_DOESNT_EXIST", "STATUS_INTERNAL_ERROR"}
Statuses == {STATUS_OK, STATUS_UNKNOWN_TABLET} \cup FatalStatuses
\* WireFormat::TxPrepare votes.
Votes == {"COMMIT", "ABORT"}
NoException == "none"
NoRoute == "none"

\* ------------------------------------------------------------------- state
VARIABLES
    commitCache,        \* Seq of entries in CacheKey order
    participantList,    \* Seq of [tableId, keyHash, rpcId]
    participantCount,
    state,              \* INIT, PREPARE, DECISION, DONE
    status,
    decision,           \* INVALID, COMMIT, ABORT
    lease,
    txId,
    nextCacheEntry,     \* index into commitCache; Len + 1 is end()
    prepareRpcs,        \* std::list<PrepareRpc>
    decisionRpcs,       \* std::list<DecisionRpc>
    tabletMap,          \* objectFinder: cached route of every key, or NoRoute
    flushSessionCalls,  \* transportManager: the locators the last step flushed
    rpcFinishedCalls,   \* rpcTracker: number of rpcFinished(txId) calls
    faults,             \* recoverable faults so far
    prepareOutcome,     \* history, per entry: none | sent | retry | ok
    decisionOutcome,    \* history, per entry: none | sent | retry | ok
    votesArrived,       \* history: votes of STATUS_OK prepare responses received
    votesProcessed,     \* history: votes processPrepareRpcs has examined
    eventLog,           \* history: the RPCs the last step handled
    sentThisCall        \* history: the RPCs the last performTask sent

vars == << commitCache, participantList, participantCount, state, status,
           decision, lease, txId, nextCacheEntry, prepareRpcs, decisionRpcs,
           tabletMap, flushSessionCalls, rpcFinishedCalls,
           faults, prepareOutcome, decisionOutcome, votesArrived,
           votesProcessed, eventLog, sentThisCall >>

\* ----------------------------------------------------------------- helpers
\* CacheKey::operator< : lexicographic on (tableId, keyHash).
CacheKeyLess(a, b) ==
    \/ a.tableId < b.tableId
    \/ a.tableId = b.tableId /\ a.keyHash < b.keyHash

KeyOf(entry) == [tableId |-> entry.tableId, keyHash |-> entry.keyHash]

\* std::list::erase(it): the list without its it-th element.
Erase(list, it) ==
    [j \in 1..(Len(list) - 1) |-> IF j < it THEN list[j] ELSE list[j + 1]]

\* The element of a set of one element.  Only({e : x \in {v}}) is e with x
\* standing for the value of v: a local variable assigned once.
Only(S) == CHOOSE x \in S : TRUE

\* What a test of the task can observe of it.
Snapshot(t) ==
    [state |-> t.state, status |-> t.status, decision |-> t.decision,
     entryStates |-> [i \in 1..Len(t.commitCache) |-> t.commitCache[i].state],
     nextCacheEntry |-> t.nextCacheEntry,
     tabletMap |-> t.tabletMap,
     flushSessionCalls |-> t.flushSessionCalls,
     prepareRpcs |-> Len(t.prepareRpcs),
     decisionRpcs |-> Len(t.decisionRpcs),
     rpcFinishedCalls |-> t.rpcFinishedCalls]

\* The task and its collaborators as one value, for the operators below.
\* objectFinderCalled and rpcTrackerCalled say whether the call in progress
\* has called the object finder and the RPC tracker.
Task ==
    [commitCache |-> commitCache, participantList |-> participantList,
     participantCount |-> participantCount, state |-> state,
     status |-> status, decision |-> decision, lease |-> lease,
     txId |-> txId, nextCacheEntry |-> nextCacheEntry,
     prepareRpcs |-> prepareRpcs, decisionRpcs |-> decisionRpcs,
     tabletMap |-> tabletMap,
     flushSessionCalls |-> << >>,
     rpcFinishedCalls |-> rpcFinishedCalls,
     prepareOutcome |-> prepareOutcome, decisionOutcome |-> decisionOutcome,
     votesProcessed |-> votesProcessed,
     eventLog |-> << >>, sentThisCall |-> << >>, thrown |-> NoException,
     objectFinderCalled |-> FALSE, rpcTrackerCalled |-> FALSE]


\* ------------------------------------------------------------ objectFinder
\* The keys the task looks up: those of the commit cache.
CachedKeys(t) == {KeyOf(t.commitCache[i]) : i \in 1..Len(t.commitCache)}

\* objectFinder.lookup(tableId, keyHash): the object finder after the call.
\* A table with no cached route is first fetched from the coordinator, whose
\* answer is coord.
ObjectFinderLookup(t, key, coord) ==
    IF t.tabletMap[key] = NoRoute
    THEN [t EXCEPT
            !.objectFinderCalled = TRUE,
            !.tabletMap = [k \in CacheKeys |->
                              IF k.tableId = key.tableId /\ k \in CachedKeys(t)
                              THEN coord[k]
                              ELSE t.tabletMap[k]]]
    ELSE [t EXCEPT !.objectFinderCalled = TRUE]

\* session->getServiceLocator() of the session lookup returns.
ServiceLocator(t, key) == t.tabletMap[key]

\* objectFinder.flush(tableId).
ObjectFinderFlush(t, tableId) ==
    [t EXCEPT !.objectFinderCalled = TRUE,
              !.tabletMap = [k \in CacheKeys |->
                                IF k.tableId = tableId THEN NoRoute
                                ELSE t.tabletMap[k]]]

\* -------------------------------------------------------------- PrepareRpc
\* PrepareRpc::PrepareRpc(ramcloud, session, task).
PrepareRpc(t, locator) ==
    [ops |-> << >>, opCount |-> 0,
     participantCount |-> t.participantCount, lease |-> t.lease,
     state |-> "NOT_STARTED", locator |-> locator, session |-> TRUE,
     status |-> "NONE", vote |-> "NONE"]

\* PrepareRpc::appendOp(opEntry), the rpc being prepareRpcs.back().  The
\* payload it frames depends on the entry's type, one of READ, REMOVE and
\* WRITE for every staged entry; it is not part of this model.
PrepareRpcAppendOp(t, i) ==
    LET n == Len(t.prepareRpcs) IN
    [t EXCEPT
        !.commitCache[i].state = "PREPARE",
        !.prepareRpcs[n].ops = Append(@, i),
        !.prepareRpcs[n].opCount = @ + 1,
        !.prepareOutcome[i] = "sent"]

\* PrepareRpc::send(), on prepareRpcs.back().
PrepareRpcSend(t) ==
    LET n == Len(t.prepareRpcs)
        rpc == [t.prepareRpcs[n] EXCEPT !.state = "IN_PROGRESS"]
    IN [t EXCEPT
          !.prepareRpcs[n] = rpc,
          !.sentThisCall = Append(@,
              [kind |-> "prepare", rpc |-> rpc,
               locators |-> [k \in 1..rpc.opCount |->
                   ServiceLocator(t, KeyOf(t.commitCache[rpc.ops[k]]))]])]

\* The loop of retryRequest: every op of the request back to PENDING, its
\* table's route flushed.
RECURSIVE PrepareRpcRetryLoop(_, _, _)
PrepareRpcRetryLoop(t, rpc, k) ==
    IF k > rpc.opCount THEN t
    ELSE LET i == rpc.ops[k]
             f == ObjectFinderFlush(t, t.commitCache[i].tableId)
         IN PrepareRpcRetryLoop(
                [f EXCEPT !.commitCache[i].state = "PENDING",
                          !.prepareOutcome[i] = "retry"],
                rpc, k + 1)

\* A retryRequest that leaves the cursor where it is.
PrepareRpcRetryRequestNoRewind(t, rpc) == PrepareRpcRetryLoop(t, rpc, 1)

\* A retryRequest that sends every entry of the cache back to PENDING.
PrepareRpcRetryRequestAll(t, rpc) ==
    [t EXCEPT
        !.commitCache = [i \in 1..Len(t.commitCache) |->
                            [t.commitCache[i] EXCEPT !.state = "PENDING"]],
        !.tabletMap = [k \in CacheKeys |-> NoRoute],
        !.nextCacheEntry = 1]

\* PrepareRpc::retryRequest().
PrepareRpcRetryRequest(t, rpc) ==
    [PrepareRpcRetryLoop(t, rpc, 1) EXCEPT !.nextCacheEntry = 1]

\* A checkStatus that treats STATUS_UNKNOWN_TABLET as handleTransportError
\* treats a failure: it flushes the session as well.
PrepareRpcCheckStatusFlushes(t, rpc) ==
    IF rpc.status = STATUS_UNKNOWN_TABLET
    THEN [PrepareRpcRetryRequestNoRewind(t, rpc) EXCEPT
             !.nextCacheEntry = 1,
             !.flushSessionCalls = Append(@, rpc.locator)]
    ELSE t

\* PrepareRpc::checkStatus().
PrepareRpcCheckStatus(t, rpc) ==
    IF rpc.status = STATUS_UNKNOWN_TABLET
    THEN PrepareRpcRetryRequest(t, rpc)
    ELSE t

\* PrepareRpc::handleTransportError() on the it-th prepare RPC.
PrepareRpcHandleTransportError(t, it) ==
    LET rpc == t.prepareRpcs[it]
        f == IF rpc.session
             THEN [t EXCEPT !.flushSessionCalls = Append(@, rpc.locator),
                            !.prepareRpcs[it].session = FALSE]
             ELSE t
    IN PrepareRpcRetryRequest(f, rpc)

\* ------------------------------------------------------------- DecisionRpc
\* A constructor that writes COMMIT in the header whatever the task decided.
DecisionRpcAlwaysCommit(t, locator) ==
    [ops |-> << >>, participantCount |-> 0,
     decision |-> "COMMIT", lease |-> t.lease,
     state |-> "NOT_STARTED", locator |-> locator, session |-> TRUE,
     status |-> "NONE"]

\* DecisionRpc::DecisionRpc(ramcloud, session, task).
DecisionRpc(t, locator) ==
    [ops |-> << >>, participantCount |-> 0,
     decision |-> t.decision, lease |-> t.lease,
     state |-> "NOT_STARTED", locator |-> locator, session |-> TRUE,
     status |-> "NONE"]

\* DecisionRpc::appendOp(opEntry), the rpc being decisionRpcs.back().
DecisionRpcAppendOp(t, i) ==
    LET n == Len(t.decisionRpcs) IN
    [t EXCEPT
        !.commitCache[i].state = "DECIDE",
        !.decisionRpcs[n].ops = Append(@, i),
        !.decisionRpcs[n].participantCount = @ + 1,
        !.decisionOutcome[i] = "sent"]

\* DecisionRpc::send(), on decisionRpcs.back().
DecisionRpcSend(t) ==
    LET n == Len(t.decisionRpcs)
        rpc == [t.decisionRpcs[n] EXCEPT !.state = "IN_PROGRESS"]
    IN [t EXCEPT
          !.decisionRpcs[n] = rpc,
          !.sentThisCall = Append(@,
              [kind |-> "decision", rpc |-> rpc,
               locators |-> [k \in 1..rpc.participantCount |->
                   ServiceLocator(t, KeyOf(t.commitCache[rpc.ops[k]]))]])]

RECURSIVE DecisionRpcRetryLoop(_, _, _)
DecisionRpcRetryLoop(t, rpc, k) ==
    IF k > rpc.participantCount THEN t
    ELSE LET i == rpc.ops[k]
             f == ObjectFinderFlush(t, t.commitCache[i].tableId)
         IN DecisionRpcRetryLoop(
                [f EXCEPT !.commitCache[i].state = "PENDING",
                          !.decisionOutcome[i] = "retry"],
                rpc, k + 1)

\* A retryRequest that leaves the cursor where it is.
DecisionRpcRetryRequestNoRewind(t, rpc) == DecisionRpcRetryLoop(t, rpc, 1)

\* A retryRequest that sends every entry of the cache back to PENDING.
DecisionRpcRetryRequestAll(t, rpc) ==
    [t EXCEPT
        !.commitCache = [i \in 1..Len(t.commitCache) |->
                            [t.commitCache[i] EXCEPT !.state = "PENDING"]],
        !.tabletMap = [k \in CacheKeys |-> NoRoute],
        !.nextCacheEntry = 1]

\* DecisionRpc::retryRequest().
DecisionRpcRetryRequest(t, rpc) ==
    [DecisionRpcRetryLoop(t, rpc, 1) EXCEPT !.nextCacheEntry = 1]

\* DecisionRpc::checkStatus().
DecisionRpcCheckStatus(t, rpc) ==
    IF rpc.status = STATUS_UNKNOWN_TABLET
    THEN DecisionRpcRetryRequest(t, rpc)
    ELSE t

\* DecisionRpc::handleTransportError() on the it-th decision RPC.
DecisionRpcHandleTransportError(t, it) ==
    LET rpc == t.decisionRpcs[it]
        f == IF rpc.session
             THEN [t EXCEPT !.flushSessionCalls = Append(@, rpc.locator),
                            !.decisionRpcs[it].session = FALSE]
             ELSE t
    IN DecisionRpcRetryRequest(f, rpc)

\* -------------------------------------------------------------- RpcWrapper
\* RpcWrapper::isReady() without the call of checkStatus it makes: an RPC
\* is ready once its response arrived or the transport reported a failure.
IsReady(rpc) == rpc.state \in {"FINISHED", "FAILED"}

\* Whether isReady() runs checkStatus(): a response whose status is not OK.
CallsCheckStatus(rpc) == rpc.state = "FINISHED" /\ rpc.status # STATUS_OK


\* --------------------------------------------------- ClientTransactionTask
\* The loop of initTask from the i-th entry on (i counts from 0 in the
\* source, the cursor from 1 here).
RECURSIVE InitTaskLoop(_, _)
InitTaskLoop(t, i) ==
    IF t.nextCacheEntry > Len(t.commitCache) THEN t
    ELSE LET c == t.nextCacheEntry
             entry == t.commitCache[c]
             rpcId == t.txId + i
         IN InitTaskLoop(
                [t EXCEPT
                    !.commitCache[c].rpcId = rpcId,
                    !.participantList = Append(@,
                        [tableId |-> entry.tableId, keyHash |-> entry.keyHash,
                         rpcId |-> rpcId]),
                    !.participantCount = @ + 1,
                    !.nextCacheEntry = c + 1],
                i + 1)

\* An initTask that counts the entries from 1.
initTaskFromOne(t, id) ==
    InitTaskLoop([t EXCEPT !.lease = 1, !.txId = id, !.nextCacheEntry = 1,
                           !.rpcTrackerCalled = TRUE], 1)

\* ClientTransactionTask::initTask(); id is what newRpcIdBlock returns.
initTask(t, id) ==
    InitTaskLoop([t EXCEPT !.lease = 1, !.txId = id, !.nextCacheEntry = 1,
                           !.rpcTrackerCalled = TRUE], 0)

\* A sweep body that ignores a fatal status instead of throwing.
ProcessPrepareRpcSwallows(t, rpc) ==
    Only({
        IF rpc.state = "FINISHED" /\ rpc.status = STATUS_OK
        THEN [c EXCEPT
                !.decision = IF rpc.vote # "COMMIT" THEN "ABORT" ELSE @,
                !.votesProcessed = @ \cup {rpc.vote},
                !.prepareOutcome = [i \in DOMAIN @ |->
                    IF \E k \in 1..rpc.opCount : rpc.ops[k] = i
                    THEN "ok" ELSE @[i]]]
        ELSE c
      : c \in {IF CallsCheckStatus(rpc) THEN PrepareRpcCheckStatus(t, rpc)
               ELSE t}})

\* A sweep body that asks for a retry of a request that answered STATUS_OK.
ProcessPrepareRpcRetriesOk(t, rpc) ==
    Only({
        IF rpc.state = "FAILED" THEN c
        ELSE IF rpc.status = STATUS_OK
        THEN PrepareRpcRetryRequest(
                 [c EXCEPT
                    !.decision = IF rpc.vote # "COMMIT" THEN "ABORT" ELSE @,
                    !.votesProcessed = @ \cup {rpc.vote}],
                 rpc)
        ELSE IF rpc.status = STATUS_UNKNOWN_TABLET THEN c
        ELSE [c EXCEPT !.thrown = rpc.status]
      : c \in {IF CallsCheckStatus(rpc) THEN PrepareRpcCheckStatus(t, rpc)
               ELSE t}})

\* A sweep body in which the vote processed last decides.
ProcessPrepareRpcLastVoteWins(t, rpc) ==
    Only({
        IF rpc.state = "FAILED" THEN c
        ELSE IF rpc.status = STATUS_OK
        THEN [c EXCEPT
                !.decision = IF rpc.vote # "COMMIT" THEN "ABORT" ELSE "COMMIT",
                !.votesProcessed = @ \cup {rpc.vote},
                !.prepareOutcome = [i \in DOMAIN @ |->
                    IF \E k \in 1..rpc.opCount : rpc.ops[k] = i
                    THEN "ok" ELSE @[i]]]
        ELSE IF rpc.status = STATUS_UNKNOWN_TABLET THEN c
        ELSE [c EXCEPT !.thrown = rpc.status]
      : c \in {IF CallsCheckStatus(rpc) THEN PrepareRpcCheckStatus(t, rpc)
               ELSE t}})

\* The body of the loop of processPrepareRpcs for a ready RPC, up to the
\* erase: isReady()'s call of checkStatus, then the branch on the outcome.
ProcessPrepareRpc(t, rpc) ==
    Only({
        IF rpc.state = "FAILED" THEN c
        ELSE IF rpc.status = STATUS_OK
        THEN [c EXCEPT
                !.decision = IF rpc.vote # "COMMIT" THEN "ABORT" ELSE @,
                !.votesProcessed = @ \cup {rpc.vote},
                !.prepareOutcome = [i \in DOMAIN @ |->
                    IF \E k \in 1..rpc.opCount : rpc.ops[k] = i
                    THEN "ok" ELSE @[i]]]
        ELSE IF rpc.status = STATUS_UNKNOWN_TABLET THEN c
        ELSE [c EXCEPT !.thrown = rpc.status]
      : c \in {IF CallsCheckStatus(rpc) THEN PrepareRpcCheckStatus(t, rpc)
               ELSE t}})

\* What the sweep logs of the RPC it handled.
Outcome(rpc) == IF rpc.state = "FAILED" THEN "FAILED" ELSE rpc.status

\* ClientTransactionTask::processPrepareRpcs() from iterator it on.  After
\* the erase of the last element the iterator is end(), and the loop
\* increments it: undefined behaviour.  Either the iterator wraps to begin()
\* (the list is circular) and the sweep goes on, or the loop ends: wraps
\* says which.
RECURSIVE ProcessPrepareRpcsFrom(_, _, _)
ProcessPrepareRpcsFrom(t, it, wraps) ==
    IF it > Len(t.prepareRpcs) THEN t
    ELSE LET rpc == t.prepareRpcs[it] IN
         IF ~IsReady(rpc) THEN ProcessPrepareRpcsFrom(t, it + 1, wraps)
         ELSE Only({Only({Only({
                  IF l.thrown # NoException THEN l
                  ELSE IF it <= Len(l.prepareRpcs)
                  THEN ProcessPrepareRpcsFrom(l, it + 1, wraps)
                  ELSE IF wraps
                  THEN ProcessPrepareRpcsFrom(l, 1, wraps)
                  ELSE l
                : l \in {[e EXCEPT !.eventLog = Append(@,
                            [kind |-> "prepare", outcome |-> Outcome(rpc),
                             rpc |-> rpc, before |-> Snapshot(t),
                             after |-> Snapshot(e)])]}})
                : e \in {IF h.thrown # NoException THEN h
                         ELSE [h EXCEPT !.prepareRpcs = Erase(@, it)]}})
                : h \in {ProcessPrepareRpc(t, rpc)}})

processPrepareRpcs(t, wraps) == ProcessPrepareRpcsFrom(t, 1, wraps)

\* The body of the loop of processDecisionRpcs for a ready RPC.
ProcessDecisionRpc(t, rpc) ==
    Only({
        IF rpc.state = "FAILED" THEN c
        ELSE IF rpc.status = STATUS_OK
        THEN [c EXCEPT
                !.decisionOutcome = [i \in DOMAIN @ |->
                    IF \E k \in 1..rpc.participantCount : rpc.ops[k] = i
                    THEN "ok" ELSE @[i]]]
        ELSE IF rpc.status = STATUS_UNKNOWN_TABLET THEN c
        ELSE [c EXCEPT !.thrown = rpc.status]
      : c \in {IF CallsCheckStatus(rpc) THEN DecisionRpcCheckStatus(t, rpc)
               ELSE t}})

\* ClientTransactionTask::processDecisionRpcs() from iterator it on.
RECURSIVE ProcessDecisionRpcsFrom(_, _, _)
ProcessDecisionRpcsFrom(t, it, wraps) ==
    IF it > Len(t.decisionRpcs) THEN t
    ELSE LET rpc == t.decisionRpcs[it] IN
         IF ~IsReady(rpc) THEN ProcessDecisionRpcsFrom(t, it + 1, wraps)
         ELSE Only({Only({Only({
                  IF l.thrown # NoException THEN l
                  ELSE IF it <= Len(l.decisionRpcs)
                  THEN ProcessDecisionRpcsFrom(l, it + 1, wraps)
                  ELSE IF wraps
                  THEN ProcessDecisionRpcsFrom(l, 1, wraps)
                  ELSE l
                : l \in {[e EXCEPT !.eventLog = Append(@,
                            [kind |-> "decision", outcome |-> Outcome(rpc),
                             rpc |-> rpc, before |-> Snapshot(t),
                             after |-> Snapshot(e)])]}})
                : e \in {IF h.thrown # NoException THEN h
                         ELSE [h EXCEPT !.decisionRpcs = Erase(@, it)]}})
                : h \in {ProcessDecisionRpc(t, rpc)}})

processDecisionRpcs(t, wraps) == ProcessDecisionRpcsFrom(t, 1, wraps)

\* A loop that closes the request one op too late.
RECURSIVE SendPrepareRpcLoopOffByOne(_, _, _)
SendPrepareRpcLoopOffByOne(t, opened, coord) ==
    IF t.nextCacheEntry > Len(t.commitCache)
    THEN [task |-> t, opened |-> opened]
    ELSE LET i == t.nextCacheEntry
             entry == t.commitCache[i]
         IN IF entry.state = "PREPARE"
            THEN SendPrepareRpcLoopOffByOne(
                     [t EXCEPT !.nextCacheEntry = i + 1], opened, coord)
            ELSE Only({Only({
                     LET session == ServiceLocator(f, KeyOf(entry))
                         nextRpc == n.prepareRpcs[Len(n.prepareRpcs)]
                     IN IF /\ session = nextRpc.locator
                           /\ nextRpc.opCount <= MAX_OBJECTS_PER_RPC
                        THEN SendPrepareRpcLoopOffByOne(
                                 [PrepareRpcAppendOp(n, i) EXCEPT
                                     !.nextCacheEntry = i + 1],
                                 TRUE, coord)
                        ELSE [task |-> n, opened |-> TRUE]
                   : n \in {IF opened THEN f
                            ELSE [f EXCEPT !.prepareRpcs = Append(@,
                                     PrepareRpc(f, ServiceLocator(f,
                                                             KeyOf(entry))))]}})
                   : f \in {ObjectFinderLookup(t, KeyOf(entry), coord)}})

\* The loop of sendPrepareRpc; opened is nextRpc != NULL, and nextRpc is
\* then prepareRpcs.back().
RECURSIVE SendPrepareRpcLoop(_, _, _)
SendPrepareRpcLoop(t, opened, coord) ==
    IF t.nextCacheEntry > Len(t.commitCache)
    THEN [task |-> t, opened |-> opened]
    ELSE LET i == t.nextCacheEntry
             entry == t.commitCache[i]
         IN IF entry.state = "PREPARE"
            THEN SendPrepareRpcLoop([t EXCEPT !.nextCacheEntry = i + 1],
                                    opened, coord)
            ELSE Only({Only({
                     LET session == ServiceLocator(f, KeyOf(entry))
                         nextRpc == n.prepareRpcs[Len(n.prepareRpcs)]
                     IN IF /\ session = nextRpc.locator
                           /\ nextRpc.opCount < MAX_OBJECTS_PER_RPC
                        THEN SendPrepareRpcLoop(
                                 [PrepareRpcAppendOp(n, i) EXCEPT
                                     !.nextCacheEntry = i + 1],
                                 TRUE, coord)
                        ELSE [task |-> n, opened |-> TRUE]
                   : n \in {IF opened THEN f
                            ELSE [f EXCEPT !.prepareRpcs = Append(@,
                                     PrepareRpc(f, ServiceLocator(f,
                                                             KeyOf(entry))))]}})
                   : f \in {ObjectFinderLookup(t, KeyOf(entry), coord)}})

\* ClientTransactionTask::sendPrepareRpc().
sendPrepareRpc(t, coord) ==
    Only({IF r.opened THEN PrepareRpcSend(r.task) ELSE r.task
          : r \in {SendPrepareRpcLoop(t, FALSE, coord)}})

\* A loop that attaches an entry whatever session lookup returns for it.
RECURSIVE SendDecisionRpcLoopAnySession(_, _, _)
SendDecisionRpcLoopAnySession(t, opened, coord) ==
    IF t.nextCacheEntry > Len(t.commitCache)
    THEN [task |-> t, opened |-> opened]
    ELSE LET i == t.nextCacheEntry
             entry == t.commitCache[i]
         IN IF entry.state = "DECIDE"
            THEN SendDecisionRpcLoopAnySession(
                     [t EXCEPT !.nextCacheEntry = i + 1], opened, coord)
            ELSE Only({Only({
                     LET nextRpc == n.decisionRpcs[Len(n.decisionRpcs)]
                     IN IF nextRpc.participantCount < MAX_OBJECTS_PER_RPC
                        THEN SendDecisionRpcLoopAnySession(
                                 [DecisionRpcAppendOp(n, i) EXCEPT
                                     !.nextCacheEntry = i + 1],
                                 TRUE, coord)
                        ELSE [task |-> n, opened |-> TRUE]
                   : n \in {IF opened THEN f
                            ELSE [f EXCEPT !.decisionRpcs = Append(@,
                                     DecisionRpc(f, ServiceLocator(f,
                                                             KeyOf(entry))))]}})
                   : f \in {ObjectFinderLookup(t, KeyOf(entry), coord)}})

\* The loop of sendDecisionRpc.
RECURSIVE SendDecisionRpcLoop(_, _, _)
SendDecisionRpcLoop(t, opened, coord) ==
    IF t.nextCacheEntry > Len(t.commitCache)
    THEN [task |-> t, opened |-> opened]
    ELSE LET i == t.nextCacheEntry
             entry == t.commitCache[i]
         IN IF entry.state = "DECIDE"
            THEN SendDecisionRpcLoop([t EXCEPT !.nextCacheEntry = i + 1],
                                     opened, coord)
            ELSE Only({Only({
                     LET session == ServiceLocator(f, KeyOf(entry))
                         nextRpc == n.decisionRpcs[Len(n.decisionRpcs)]
                     IN IF /\ session = nextRpc.locator
                           /\ nextRpc.participantCount < MAX_OBJECTS_PER_RPC
                        THEN SendDecisionRpcLoop(
                                 [DecisionRpcAppendOp(n, i) EXCEPT
                                     !.nextCacheEntry = i + 1],
                                 TRUE, coord)
                        ELSE [task |-> n, opened |-> TRUE]
                   : n \in {IF opened THEN f
                            ELSE [f EXCEPT !.decisionRpcs = Append(@,
                                     DecisionRpc(f, ServiceLocator(f,
                                                             KeyOf(entry))))]}})
                   : f \in {ObjectFinderLookup(t, KeyOf(entry), coord)}})

\* ClientTransactionTask::sendDecisionRpc().
sendDecisionRpc(t, coord) ==
    Only({IF r.opened THEN DecisionRpcSend(r.task) ELSE r.task
          : r \in {SendDecisionRpcLoop(t, FALSE, coord)}})

\* rpcTracker.rpcFinished(txId).
RpcFinished(t) ==
    [t EXCEPT !.rpcFinishedCalls = @ + 1, !.rpcTrackerCalled = TRUE]

\* performTask: the block run while state == INIT.
PerformInit(t, id) ==
    [initTask(t, id) EXCEPT !.nextCacheEntry = 1, !.state = "PREPARE"]

\* A PREPARE block that moves on as soon as the cursor is at the end,
\* whatever is still pending.
PerformPrepareNoDrain(t, wraps, coord) ==
    Only({
        IF p.thrown # NoException THEN p
        ELSE Only({
             IF s.nextCacheEntry > Len(s.commitCache)
             THEN [s EXCEPT
                     !.nextCacheEntry = 1,
                     !.decision = IF @ # "ABORT" THEN "COMMIT" ELSE @,
                     !.state = "DECISION"]
             ELSE s
           : s \in {sendPrepareRpc(p, coord)}})
      : p \in {processPrepareRpcs(t, wraps)}})

\* A PREPARE block that sets decision = COMMIT whatever the votes were.
PerformPrepareOverwrites(t, wraps, coord) ==
    Only({
        IF p.thrown # NoException THEN p
        ELSE Only({
             IF s.prepareRpcs = << >> /\ s.nextCacheEntry > Len(s.commitCache)
             THEN [s EXCEPT
                     !.nextCacheEntry = 1,
                     !.decision = "COMMIT",
                     !.state = "DECISION"]
             ELSE s
           : s \in {sendPrepareRpc(p, coord)}})
      : p \in {processPrepareRpcs(t, wraps)}})

\* A PREPARE block that compares the cursor with begin() instead of end().
PerformPrepareBegin(t, wraps, coord) ==
    Only({
        IF p.thrown # NoException THEN p
        ELSE Only({
             IF s.prepareRpcs = << >> /\ s.nextCacheEntry = 1
             THEN [s EXCEPT
                     !.nextCacheEntry = 1,
                     !.decision = IF @ # "ABORT" THEN "COMMIT" ELSE @,
                     !.state = "DECISION"]
             ELSE s
           : s \in {sendPrepareRpc(p, coord)}})
      : p \in {processPrepareRpcs(t, wraps)}})

\* A PREPARE block that calls sendPrepareRpc twice.
PerformPrepareSendsTwice(t, wraps, coord) ==
    Only({
        IF p.thrown # NoException THEN p
        ELSE Only({
             IF s.prepareRpcs = << >> /\ s.nextCacheEntry > Len(s.commitCache)
             THEN [s EXCEPT
                     !.nextCacheEntry = 1,
                     !.decision = IF @ # "ABORT" THEN "COMMIT" ELSE @,
                     !.state = "DECISION"]
             ELSE s
           : s \in {sendPrepareRpc(sendPrepareRpc(p, coord), coord)}})
      : p \in {processPrepareRpcs(t, wraps)}})

\* performTask: the block run while state == PREPARE.
PerformPrepare(t, wraps, coord) ==
    Only({
        IF p.thrown # NoException THEN p
        ELSE Only({
             IF s.prepareRpcs = << >> /\ s.nextCacheEntry > Len(s.commitCache)
             THEN [s EXCEPT
                     !.nextCacheEntry = 1,
                     !.decision = IF @ # "ABORT" THEN "COMMIT" ELSE @,
                     !.state = "DECISION"]
             ELSE s
           : s \in {sendPrepareRpc(p, coord)}})
      : p \in {processPrepareRpcs(t, wraps)}})

\* performTask: the block run while state == DECISION.
PerformDecision(t, wraps, coord) ==
    Only({
        IF p.thrown # NoException THEN p
        ELSE Only({
             IF s.decisionRpcs = << >> /\ s.nextCacheEntry > Len(s.commitCache)
             THEN [RpcFinished(s) EXCEPT !.state = "DONE"]
             ELSE s
           : s \in {sendDecisionRpc(p, coord)}})
      : p \in {processDecisionRpcs(t, wraps)}})

\* A catch block that does not record the status.
PerformCatchKeepsStatus(t) ==
    [RpcFinished([t EXCEPT !.prepareRpcs = << >>,
                           !.decisionRpcs = << >>])
     EXCEPT !.state = "DONE"]

\* A catch block that does not surrender the id range.
PerformCatchNoFinish(t) ==
    [t EXCEPT !.prepareRpcs = << >>,
              !.decisionRpcs = << >>,
              !.status = t.thrown,
              !.state = "DONE"]

\* performTask: the catch block.
PerformCatch(t) ==
    [RpcFinished([t EXCEPT !.prepareRpcs = << >>,
                           !.decisionRpcs = << >>,
                           !.status = t.thrown])
     EXCEPT !.state = "DONE"]

\* A performTask that surrenders the id range in every call made in DONE.
performTaskFinishesAgain(t, id, wraps, coord) ==
    IF t.state = "DONE" THEN RpcFinished(t)
    ELSE Only({Only({Only({
        IF c.thrown # NoException THEN PerformCatch(c) ELSE c
      : c \in {IF b.thrown = NoException /\ b.state = "DECISION"
               THEN PerformDecision(b, wraps, coord)
               ELSE b}})
      : b \in {IF a.state = "PREPARE" THEN PerformPrepare(a, wraps, coord)
               ELSE a}})
      : a \in {IF t.state = "INIT" THEN PerformInit(t, id) ELSE t}})

\* ClientTransactionTask::performTask().
performTask(t, id, wraps, coord) ==
    Only({Only({Only({
        IF c.thrown # NoException THEN PerformCatch(c) ELSE c
      : c \in {IF b.thrown = NoException /\ b.state = "DECISION"
               THEN PerformDecision(b, wraps, coord)
               ELSE b}})
      : b \in {IF a.state = "PREPARE" THEN PerformPrepare(a, wraps, coord)
               ELSE a}})
      : a \in {IF t.state = "INIT" THEN PerformInit(t, id) ELSE t}})


\* ----------------------------------------------------------------- actions
Init ==
    /\ commitCache = << >>
    /\ participantList = << >>
    /\ participantCount = 0
    /\ state = "INIT"
    /\ status = STATUS_OK
    /\ decision = "INVALID"
    /\ lease = 0
    /\ txId = 0
    /\ nextCacheEntry = 1
    /\ prepareRpcs = << >>
    /\ decisionRpcs = << >>
    /\ tabletMap = [k \in CacheKeys |-> NoRoute]
    /\ flushSessionCalls = << >>
    /\ rpcFinishedCalls = 0
    /\ faults = 0
    /\ prepareOutcome = << >>
    /\ decisionOutcome = << >>
    /\ votesArrived = {}
    /\ votesProcessed = {}
    /\ eventLog = << >>
    /\ sentThisCall = << >>

\* std::multimap::insert: after the last entry whose key is not greater.
InsertPosition(cache, key) ==
    Cardinality({i \in 1..Len(cache) : ~CacheKeyLess(key, KeyOf(cache[i]))})

\* ClientTransactionTask::insertCacheEntry(tableId, key, ...), the key
\* hashing to keyHash; called while staging, before the commit starts.
InsertCacheEntry(tableId, keyHash) ==
    /\ state = "INIT"
    /\ Len(commitCache) < MaxEntries
    /\ LET key == [tableId |-> tableId, keyHash |-> keyHash]
           pos == InsertPosition(commitCache, key)
           entry == [tableId |-> tableId, keyHash |-> keyHash,
                     rpcId |-> 0, state |-> "PENDING"]
       IN commitCache' =
              [j \in 1..(Len(commitCache) + 1) |->
                  IF j <= pos THEN commitCache[j]
                  ELSE IF j = pos + 1 THEN entry
                  ELSE commitCache[j - 1]]
    /\ prepareOutcome' = [j \in 1..(Len(commitCache) + 1) |-> "none"]
    /\ decisionOutcome' = [j \in 1..(Len(commitCache) + 1) |-> "none"]
    /\ eventLog' = << >>
    /\ sentThisCall' = << >>
    /\ flushSessionCalls' = << >>
    /\ UNCHANGED << participantList, participantCount, state, status,
                    decision, lease, txId, nextCacheEntry, prepareRpcs,
                    decisionRpcs, tabletMap, rpcFinishedCalls, faults,
                    votesArrived, votesProcessed >>

\* The variables a step of the task itself sets, from the task value r.
Becomes(r) ==
    /\ commitCache' = r.commitCache
    /\ participantList' = r.participantList
    /\ participantCount' = r.participantCount
    /\ state' = r.state
    /\ status' = r.status
    /\ decision' = r.decision
    /\ lease' = r.lease
    /\ txId' = r.txId
    /\ nextCacheEntry' = r.nextCacheEntry
    /\ prepareRpcs' = r.prepareRpcs
    /\ decisionRpcs' = r.decisionRpcs
    /\ tabletMap' = r.tabletMap
    /\ flushSessionCalls' = r.flushSessionCalls
    /\ rpcFinishedCalls' = r.rpcFinishedCalls
    /\ prepareOutcome' = r.prepareOutcome
    /\ decisionOutcome' = r.decisionOutcome
    /\ votesProcessed' = r.votesProcessed
    /\ eventLog' = r.eventLog
    /\ sentThisCall' = r.sentThisCall

\* The manager's poll loop calls performTask.
PerformTask(id, wraps, coord) ==
    /\ \E r \in {performTask(Task, id, wraps, coord)} : Becomes(r)
    /\ UNCHANGED << faults, votesArrived >>

\* The response of the it-th prepare RPC arrives.
PrepareRpcFinishes(it, rpcStatus, vote) ==
    /\ it \in 1..Len(prepareRpcs)
    /\ prepareRpcs[it].state = "IN_PROGRESS"
    /\ rpcStatus = STATUS_UNKNOWN_TABLET => faults < MaxFaults
    /\ prepareRpcs' = [prepareRpcs EXCEPT
                          ![it].state = "FINISHED",
                          ![it].status = rpcStatus,
                          ![it].vote = IF rpcStatus = STATUS_OK THEN vote
                                       ELSE "NONE"]
    /\ faults' = IF rpcStatus = STATUS_UNKNOWN_TABLET THEN faults + 1
                 ELSE faults
    /\ votesArrived' = IF rpcStatus = STATUS_OK THEN votesArrived \cup {vote}
                       ELSE votesArrived
    /\ eventLog' = << >>
    /\ sentThisCall' = << >>
    /\ flushSessionCalls' = << >>
    /\ UNCHANGED << commitCache, participantList, participantCount, state,
                    status, decision, lease, txId, nextCacheEntry,
                    decisionRpcs, tabletMap, rpcFinishedCalls,
                    prepareOutcome, decisionOutcome, votesProcessed >>

\* The response of the it-th decision RPC arrives.
DecisionRpcFinishes(it, rpcStatus) ==
    /\ it \in 1..Len(decisionRpcs)
    /\ decisionRpcs[it].state = "IN_PROGRESS"
    /\ rpcStatus = STATUS_UNKNOWN_TABLET => faults < MaxFaults
    /\ decisionRpcs' = [decisionRpcs EXCEPT
                           ![it].state = "FINISHED",
                           ![it].status = rpcStatus]
    /\ faults' = IF rpcStatus = STATUS_UNKNOWN_TABLET THEN faults + 1
                 ELSE faults
    /\ eventLog' = << >>
    /\ sentThisCall' = << >>
    /\ flushSessionCalls' = << >>
    /\ UNCHANGED << commitCache, participantList, participantCount, state,
                    status, decision, lease, txId, nextCacheEntry,
                    prepareRpcs, tabletMap, rpcFinishedCalls,
                    prepareOutcome, decisionOutcome, votesArrived,
                    votesProcessed >>

\* The transport reports the failure of the it-th prepare RPC and invokes
\* its handleTransportError.
PrepareRpcFails(it) ==
    /\ it \in 1..Len(prepareRpcs)
    /\ prepareRpcs[it].state = "IN_PROGRESS"
    /\ faults < MaxFaults
    /\ \E r \in {PrepareRpcHandleTransportError(
                       [Task EXCEPT !.prepareRpcs[it].state = "FAILED"], it)} :
          Becomes([r EXCEPT !.eventLog =
              << [kind |-> "prepare", outcome |-> "transportError",
                  rpc |-> prepareRpcs[it], before |-> Snapshot(Task),
                  after |-> Snapshot(r)] >>])
    /\ faults' = faults + 1
    /\ UNCHANGED votesArrived

\* The transport reports the failure of the it-th decision RPC and invokes
\* its handleTransportError.
DecisionRpcFails(it) ==
    /\ it \in 1..Len(decisionRpcs)
    /\ decisionRpcs[it].state = "IN_PROGRESS"
    /\ faults < MaxFaults
    /\ \E r \in {DecisionRpcHandleTransportError(
                       [Task EXCEPT !.decisionRpcs[it].state = "FAILED"], it)} :
          Becomes([r EXCEPT !.eventLog =
              << [kind |-> "decision", outcome |-> "transportError",
                  rpc |-> decisionRpcs[it], before |-> Snapshot(Task),
                  after |-> Snapshot(r)] >>])
    /\ faults' = faults + 1
    /\ UNCHANGED votesArrived

\* What the coordinator may answer for the keys the task looks up.
CoordinatorMaps == [CachedKeys(Task) -> Masters]

\* The manager's poll loop runs the task.
PerformTaskStep ==
    \E id \in (IF state = "INIT" THEN TxIdStarts ELSE {txId}),
       wraps \in BOOLEAN,
       coord \in CoordinatorMaps :
        PerformTask(id, wraps, coord)

\* The transport completes an RPC, one way or another.
RpcBecomesReady ==
    \/ \E it \in 1..Len(prepareRpcs), rpcStatus \in Statuses, vote \in Votes :
           PrepareRpcFinishes(it, rpcStatus, vote)
    \/ \E it \in 1..Len(decisionRpcs), rpcStatus \in Statuses :
           DecisionRpcFinishes(it, rpcStatus)
    \/ \E it \in 1..Len(prepareRpcs) : PrepareRpcFails(it)
    \/ \E it \in 1..Len(decisionRpcs) : DecisionRpcFails(it)

Next ==
    \/ \E tableId \in TableIds, keyHash \in KeyHashes :
           InsertCacheEntry(tableId, keyHash)
    \/ PerformTaskStep
    \/ RpcBecomesReady

Spec == Init /\ [][Next]_vars

\* The manager keeps calling performTask and every sent RPC eventually
\* becomes ready; MaxFaults makes the recoverable faults finitely many.
LiveSpec ==
    /\ Init /\ [][Next]_vars
    /\ WF_vars(PerformTaskStep)
    /\ WF_vars(RpcBecomesReady)

\* ------------------------------------------------------------------ claims
\* Some decision RPC has been sent in this run.
DecisionLaunched ==
    \E i \in DOMAIN decisionOutcome : decisionOutcome[i] # "none"

\* The entries an RPC of the event log carried.
OpsOf(e) == {e.rpc.ops[k] : k \in 1..Len(e.rpc.ops)}

\* The number of participants the header of that RPC counts.
CountOf(e) ==
    IF e.kind = "prepare" THEN e.rpc.opCount ELSE e.rpc.participantCount

\* C1: whenever the task is in DECISION or any decision RPC has been sent,
\* the prepare pipeline is empty and every entry of the commit cache was
\* carried by a prepare RPC that answered STATUS_OK and whose vote
\* processPrepareRpcs has examined; none is unprepared or awaiting a retry.
C1_VotesCollectedBeforeDecision ==
    (state = "DECISION" \/ DecisionLaunched) =>
        /\ prepareRpcs = << >>
        /\ \A i \in 1..Len(commitCache) : prepareOutcome[i] = "ok"

\* A decision RPC is sent in a run whose prepare phase had a retry.
C1_Witness ==
    /\ \E k \in 1..Len(sentThisCall) : sentThisCall[k].kind = "decision"
    /\ Len(commitCache) >= 2
    /\ faults >= 1
    /\ decisionOutcome[1] = "none" \/ decisionOutcome[2] = "none"

\* C2: the prepare and the decision pipeline are never both non-empty, no
\* decision RPC exists before DECISION, and in DECISION and DONE no prepare
\* RPC is pending or created.
C2_PhasesNeverOverlap ==
    /\ ~(prepareRpcs # << >> /\ decisionRpcs # << >>)
    /\ state \in {"INIT", "PREPARE"} =>
           /\ decisionRpcs = << >>
           /\ \A k \in 1..Len(sentThisCall) : sentThisCall[k].kind = "prepare"
    /\ state \in {"DECISION", "DONE"} =>
           /\ prepareRpcs = << >>
           /\ \A k \in 1..Len(sentThisCall) : sentThisCall[k].kind = "decision"

\* Two decision RPCs are in flight at once.
C2_Witness ==
    /\ Len(decisionRpcs) >= 2
    /\ \A k \in 1..Len(decisionRpcs) : decisionRpcs[k].state = "IN_PROGRESS"

\* C3 as stated: at DONE, if any prepare response with STATUS_OK carried a
\* vote other than COMMIT, then decision = ABORT.
C3_AsStated ==
    (state = "DONE" /\ "ABORT" \in votesArrived) => decision = "ABORT"

\* C3 amended: at DONE, if processPrepareRpcs examined a prepare response
\* with STATUS_OK whose vote was not COMMIT, then decision = ABORT.
C3_ProcessedAbortVoteAborts ==
    (state = "DONE" /\ "ABORT" \in votesProcessed) => decision = "ABORT"

\* A run ends after an ABORT vote, a COMMIT vote and a retry.
C3_Witness ==
    /\ state = "DONE"
    /\ votesProcessed = {"ABORT", "COMMIT"}
    /\ faults >= 1
    /\ status = STATUS_OK

\* C4 as stated: at DONE, decision is COMMIT or ABORT iff status = STATUS_OK.
C4_AsStated ==
    state = "DONE" => (decision \in {"COMMIT", "ABORT"} <=> status = STATUS_OK)

\* C4 amended: at DONE, status = STATUS_OK implies that decision is COMMIT
\* or ABORT; a run that ends through the fatal-error path keeps the decision
\* it had: INVALID exactly when the error came in the prepare phase before
\* any non-COMMIT vote was examined.
C4_DecisionAtDone ==
    state = "DONE" =>
        /\ status = STATUS_OK => decision \in {"COMMIT", "ABORT"}
        /\ status # STATUS_OK =>
               (decision = "INVALID" <=>
                    ~DecisionLaunched /\ "ABORT" \notin votesProcessed)

\* A run ends through the fatal-error path with its decision made.
C4_Witness ==
    /\ state = "DONE"
    /\ status \in FatalStatuses
    /\ decision = "COMMIT"

\* C5: rpcFinished(txId) has been called zero times before DONE and exactly
\* once in DONE, however DONE was reached and however often performTask is
\* called afterwards.
C5_RpcFinishedOnce ==
    /\ state # "DONE" => rpcFinishedCalls = 0
    /\ state = "DONE" => rpcFinishedCalls = 1

\* The fatal-error path has run, and performTask was called again after it.
C5_Witness ==
    /\ state = "DONE"
    /\ status \in FatalStatuses
    /\ rpcFinishedCalls = 1
    /\ eventLog = << >>

\* C6: at DONE with status = STATUS_OK every entry is in state DECIDE and the
\* last decision RPC that carried it answered STATUS_OK.
C6_AllDecidedAtDone ==
    (state = "DONE" /\ status = STATUS_OK) =>
        \A i \in 1..Len(commitCache) :
            /\ commitCache[i].state = "DECIDE"
            /\ decisionOutcome[i] = "ok"

\* A full cache is committed in a run with as many faults as the bound allows.
C6_Witness ==
    /\ state = "DONE"
    /\ status = STATUS_OK
    /\ Len(commitCache) = MaxEntries
    /\ faults = MaxFaults

\* C7: the performTask call that processes a prepare RPC with a fatal status
\* ends in DONE with that status, both pipelines empty and rpcFinished
\* called; the run has sent no decision RPC, and nothing is sent in DONE.
C7_FatalPrepareStatus ==
    /\ \A k \in 1..Len(eventLog) :
           (eventLog[k].kind = "prepare"
                /\ eventLog[k].outcome \in FatalStatuses) =>
               /\ state = "DONE"
               /\ status = eventLog[k].outcome
               /\ prepareRpcs = << >>
               /\ decisionRpcs = << >>
               /\ rpcFinishedCalls = 1
               /\ ~DecisionLaunched
    /\ state = "DONE" => sentThisCall = << >>

\* A fatal prepare response is processed while another prepare RPC is pending.
C7_Witness ==
    \E k \in 1..Len(eventLog) :
        /\ eventLog[k].kind = "prepare"
        /\ eventLog[k].outcome \in FatalStatuses
        /\ eventLog[k].before.prepareRpcs >= 2

\* The effect of retryRequest on the entries, as the event log recorded it:
\* the entries of the RPC are PENDING, every other entry is as it was.
OnlyOpsPending(e) ==
    \A i \in 1..Len(e.before.entryStates) :
        e.after.entryStates[i] =
            IF i \in OpsOf(e) THEN "PENDING" ELSE e.before.entryStates[i]

\* C8: the transport error of an RPC carrying k participants sets exactly
\* the k entries of its ops array to PENDING and rewinds the cursor; every
\* other entry, the state, the status and the decision are unchanged.
C8_TransportErrorFrame ==
    \A k \in 1..Len(eventLog) :
        eventLog[k].outcome = "transportError" =>
            LET e == eventLog[k] IN
            /\ Cardinality(OpsOf(e)) = CountOf(e)
            /\ OnlyOpsPending(e)
            /\ e.after.nextCacheEntry = 1
            /\ e.after.state = e.before.state
            /\ e.after.status = e.before.status
            /\ e.after.decision = e.before.decision
            /\ e.after.prepareRpcs = e.before.prepareRpcs
            /\ e.after.decisionRpcs = e.before.decisionRpcs
            /\ e.after.rpcFinishedCalls = e.before.rpcFinishedCalls

\* An RPC with two participants fails while a third entry is attached to
\* another RPC.
C8_Witness ==
    \E k \in 1..Len(eventLog) :
        /\ eventLog[k].outcome = "transportError"
        /\ CountOf(eventLog[k]) = 2
        /\ \E i \in 1..Len(commitCache) :
               /\ i \notin OpsOf(eventLog[k])
               /\ eventLog[k].after.entryStates[i] # "PENDING"

\* The tables of the entries an RPC of the event log carried.
TablesOf(e) == {commitCache[i].tableId : i \in OpsOf(e)}

\* A recoverable fault is not propagated.
NotPropagated(e) ==
    /\ e.before.status = STATUS_OK
    /\ e.after.status = STATUS_OK
    /\ e.after.decision = e.before.decision
    /\ e.after.state = e.before.state
    /\ e.after.state # "DONE"
    /\ e.after.rpcFinishedCalls = e.before.rpcFinishedCalls

\* The retry path: the RPC's entries PENDING, their tables' routes flushed,
\* the cursor at the cache head, nothing else.
RetryPath(e) ==
    /\ OnlyOpsPending(e)
    /\ e.after.nextCacheEntry = 1
    /\ \A key \in CacheKeys :
           e.after.tabletMap[key] =
               IF key.tableId \in TablesOf(e) THEN NoRoute
               ELSE e.before.tabletMap[key]

\* The sweep removed the RPC from its own pipeline, and only it.
Removed(e) ==
    /\ e.after.prepareRpcs =
           e.before.prepareRpcs - (IF e.kind = "prepare" THEN 1 ELSE 0)
    /\ e.after.decisionRpcs =
           e.before.decisionRpcs - (IF e.kind = "decision" THEN 1 ELSE 0)

\* C9: a transport failure and a STATUS_UNKNOWN_TABLET response leave status
\* STATUS_OK, the decision and the state as they were; their effects are the
\* retry path and the removal of the RPC from its pipeline, and the session
\* is flushed for the transport failure only.
C9_RecoverableFaults ==
    \A k \in 1..Len(eventLog) :
        LET e == eventLog[k] IN
        /\ e.outcome = "transportError" =>
               /\ NotPropagated(e)
               /\ RetryPath(e)
               /\ e.after.flushSessionCalls =
                      Append(e.before.flushSessionCalls, e.rpc.locator)
               /\ e.after.prepareRpcs = e.before.prepareRpcs
               /\ e.after.decisionRpcs = e.before.decisionRpcs
        /\ e.outcome = "FAILED" =>
               /\ NotPropagated(e)
               /\ Removed(e)
               /\ e.after.entryStates = e.before.entryStates
               /\ e.after.nextCacheEntry = e.before.nextCacheEntry
               /\ e.after.tabletMap = e.before.tabletMap
               /\ e.after.flushSessionCalls = e.before.flushSessionCalls
        /\ e.outcome = STATUS_UNKNOWN_TABLET =>
               /\ NotPropagated(e)
               /\ RetryPath(e)
               /\ Removed(e)
               /\ e.after.flushSessionCalls = e.before.flushSessionCalls

\* The STATUS_UNKNOWN_TABLET response of a decision RPC with two participants
\* is processed while another decision RPC is pending.
C9_Witness ==
    \E k \in 1..Len(eventLog) :
        /\ eventLog[k].outcome = STATUS_UNKNOWN_TABLET
        /\ eventLog[k].kind = "decision"
        /\ CountOf(eventLog[k]) = 2
        /\ eventLog[k].before.decisionRpcs >= 2


\* Entry i was sent back to PENDING by a recoverable fault and no RPC has
\* carried it since.
AwaitsRetry(i) ==
    /\ i \in 1..Len(commitCache)
    /\ prepareOutcome[i] = "retry" \/ decisionOutcome[i] = "retry"

\* C10 as stated: the task eventually reaches DONE, and every entry sent
\* back to PENDING by a recoverable fault is eventually carried by a new RPC.
C10_AsStated ==
    /\ <>(state = "DONE")
    /\ \A i \in 1..MaxEntries : AwaitsRetry(i) ~> ~AwaitsRetry(i)

\* C10 amended: the task eventually reaches DONE, and every entry sent back
\* to PENDING by a recoverable fault is eventually carried by a new RPC
\* unless the task ends through the fatal-error path first.
C10_EventuallyDone ==
    /\ <>(state = "DONE")
    /\ \A i \in 1..MaxEntries :
           AwaitsRetry(i) ~>
               (~AwaitsRetry(i) \/ (state = "DONE" /\ status # STATUS_OK))

\* A committed run in which an entry had to be sent again.
C10_Witness ==
    /\ state = "DONE"
    /\ status = STATUS_OK
    /\ faults >= 1
    /\ Len(commitCache) >= 2

\* The order of the entry states.
EntryRank(s) ==
    CASE s = "PENDING" -> 0
      [] s = "PREPARE" -> 1
      [] s = "DECIDE" -> 2

\* The records of the event log of a step in which retryRequest ran.
IsRetry(e) == e.outcome \in {"transportError", STATUS_UNKNOWN_TABLET}

\* C11 as stated: no step moves the state of a cache entry backwards along
\* PENDING -> PREPARE -> DECIDE.
C11_AsStated ==
    [][Len(commitCache') = Len(commitCache) =>
          \A i \in 1..Len(commitCache) :
              EntryRank(commitCache'[i].state)
                  >= EntryRank(commitCache[i].state)]_vars

\* C11 amended: a step moves the state of an entry backwards only to PENDING
\* and only for an entry carried by an RPC whose retryRequest ran in that
\* step (transport failure or STATUS_UNKNOWN_TABLET); no entry goes from
\* DECIDE to PREPARE.
C11_BackwardsOnlyByRetry ==
    [][Len(commitCache') = Len(commitCache) =>
          \A i \in 1..Len(commitCache) :
              EntryRank(commitCache'[i].state)
                      < EntryRank(commitCache[i].state) =>
                  /\ commitCache'[i].state = "PENDING"
                  /\ \E n \in 1..Len(eventLog') :
                         /\ IsRetry(eventLog'[n])
                         /\ i \in OpsOf(eventLog'[n])]_vars

\* The retry of a decision RPC has sent an entry from DECIDE back to PENDING
\* while another entry stays DECIDE.
C11_Witness ==
    /\ state = "DECISION"
    /\ \E n \in 1..Len(eventLog) :
           /\ eventLog[n].kind = "decision"
           /\ IsRetry(eventLog[n])
           /\ \E i \in OpsOf(eventLog[n]) : commitCache[i].state = "PENDING"
    /\ \E i \in 1..Len(commitCache) : commitCache[i].state = "DECIDE"

\* C12: decision changes only from INVALID; it becomes COMMIT only in the
\* step that moves the task from the prepare phase to the decision phase, and
\* only if no vote other than COMMIT was processed; once ABORT or COMMIT it
\* never changes.
C12_DecisionOrder ==
    [][decision' # decision =>
          /\ decision = "INVALID"
          /\ \/ decision' = "ABORT"
             \/ /\ decision' = "COMMIT"
                /\ state \in {"INIT", "PREPARE"}
                /\ state' \in {"DECISION", "DONE"}
                /\ "ABORT" \notin votesProcessed']_vars

\* The task has entered the decision phase after an ABORT vote and a COMMIT
\* vote, and decision is still ABORT.
C12_Witness ==
    /\ state = "DECISION"
    /\ decision = "ABORT"
    /\ votesProcessed = {"ABORT", "COMMIT"}
    /\ \E k \in 1..Len(sentThisCall) : sentThisCall[k].kind = "decision"

\* The first entry in cache order whose state is not s; end() if none.
FirstNotIn(s) ==
    IF \E i \in 1..Len(commitCache) : commitCache[i].state # s
    THEN CHOOSE i \in 1..Len(commitCache) :
             /\ commitCache[i].state # s
             /\ \A j \in 1..(i - 1) : commitCache[j].state = s
    ELSE Len(commitCache) + 1

\* C13: no prepare RPC holds or is sent with more than MAX_OBJECTS_PER_RPC
\* ops and no decision RPC with more than MAX_OBJECTS_PER_RPC participants,
\* the header counting exactly the entries attached; after the send of a full
\* RPC the cursor is on the first entry not yet claimed in this phase.
C13_RpcSizeLimit ==
    /\ \A k \in 1..Len(prepareRpcs) :
           /\ prepareRpcs[k].opCount <= MAX_OBJECTS_PER_RPC
           /\ Len(prepareRpcs[k].ops) = prepareRpcs[k].opCount
    /\ \A k \in 1..Len(decisionRpcs) :
           /\ decisionRpcs[k].participantCount <= MAX_OBJECTS_PER_RPC
           /\ Len(decisionRpcs[k].ops) = decisionRpcs[k].participantCount
    /\ \A k \in 1..Len(sentThisCall) :
           /\ CountOf(sentThisCall[k]) <= MAX_OBJECTS_PER_RPC
           /\ Len(sentThisCall[k].rpc.ops) = CountOf(sentThisCall[k])
           /\ CountOf(sentThisCall[k]) = MAX_OBJECTS_PER_RPC =>
                  nextCacheEntry =
                      FirstNotIn(IF sentThisCall[k].kind = "prepare"
                                 THEN "PREPARE" ELSE "DECIDE")

\* A full RPC was sent and the scan stopped on an entry of the same master.
C13_Witness ==
    \E k \in 1..Len(sentThisCall) :
        /\ CountOf(sentThisCall[k]) = MAX_OBJECTS_PER_RPC
        /\ nextCacheEntry <= Len(commitCache)
        /\ tabletMap[KeyOf(commitCache[nextCacheEntry])]
               = sentThisCall[k].rpc.locator

\* C14: when an RPC is sent, objectFinder.lookup maps every entry attached
\* to it to a session with the service locator of the session the RPC is
\* sent on.
C14_OneSessionPerRpc ==
    \A k \in 1..Len(sentThisCall) :
        /\ Len(sentThisCall[k].locators) = CountOf(sentThisCall[k])
        /\ \A j \in 1..Len(sentThisCall[k].locators) :
               sentThisCall[k].locators[j] = sentThisCall[k].rpc.locator

\* An RPC with room left was sent, and the scan stopped on an entry that
\* another master owns.
C14_Witness ==
    \E k \in 1..Len(sentThisCall) :
        /\ CountOf(sentThisCall[k]) < MAX_OBJECTS_PER_RPC
        /\ nextCacheEntry <= Len(commitCache)
        /\ tabletMap[KeyOf(commitCache[nextCacheEntry])]
               \in Masters \ {sentThisCall[k].rpc.locator}

\* C15: a call of performTask made in DONE changes nothing of the task
\* (state, status, decision, the entries, the cursor, both pipelines), sends
\* no RPC, handles none, and calls neither the RPC tracker nor the object
\* finder.
C15_IdempotentInDone ==
    state = "DONE" =>
        \A wraps \in BOOLEAN, coord \in CoordinatorMaps :
            \A r \in {performTask(Task, txId, wraps, coord)} :
                /\ r.state = state
                /\ r.status = status
                /\ r.decision = decision
                /\ r.commitCache = commitCache
                /\ r.nextCacheEntry = nextCacheEntry
                /\ r.prepareRpcs = prepareRpcs
                /\ r.decisionRpcs = decisionRpcs
                /\ r.sentThisCall = << >>
                /\ r.eventLog = << >>
                /\ r.rpcFinishedCalls = rpcFinishedCalls
                /\ r.tabletMap = tabletMap
                /\ ~r.rpcTrackerCalled
                /\ ~r.objectFinderCalled
                /\ r = Task

\* performTask was called in DONE after a commit of a full cache: the call
\* that reached DONE handled the last decision RPC, a later one handled none.
C15_Witness ==
    /\ state = "DONE"
    /\ status = STATUS_OK
    /\ Len(commitCache) = MaxEntries
    /\ eventLog = << >>
    /\ sentThisCall = << >>

\* C16: from the end of initTask on, DONE included, the participant list
\* holds one record per cache entry, in the cache's CacheKey order; the i-th
\* entry (from 0) has rpcId = txId + i, so the rpcIds are pairwise distinct;
\* no retry changes either.
C16_ParticipantList ==
    state # "INIT" =>
        /\ Len(participantList) = Len(commitCache)
        /\ participantCount = Len(commitCache)
        /\ \A i \in 1..Len(commitCache) :
               /\ commitCache[i].rpcId = txId + (i - 1)
               /\ participantList[i] =
                      [tableId |-> commitCache[i].tableId,
                       keyHash |-> commitCache[i].keyHash,
                       rpcId |-> txId + (i - 1)]
        /\ \A i, j \in 1..Len(commitCache) :
               /\ i < j => ~CacheKeyLess(KeyOf(commitCache[j]),
                                         KeyOf(commitCache[i]))
               /\ i # j => commitCache[i].rpcId # commitCache[j].rpcId

\* A full cache with two tables, in the decision phase, an entry waiting to
\* be sent again after a retry.
C16_Witness ==
    /\ state = "DECISION"
    /\ Len(commitCache) = MaxEntries
    /\ commitCache[1].tableId # commitCache[MaxEntries].tableId
    /\ \E i \in 1..Len(commitCache) : decisionOutcome[i] = "retry"

\* C17: one call of performTask sends at most one RPC, of either kind.
C17_OneRpcPerCall ==
    Len(sentThisCall) <= 1

\* The call that handled the last prepare response moved the task to the
\* decision phase and sent a decision RPC, entries being left for a second.
C17_Witness ==
    /\ state = "DECISION"
    /\ \E n \in 1..Len(eventLog) : eventLog[n].kind = "prepare"
    /\ Len(sentThisCall) = 1
    /\ sentThisCall[1].kind = "decision"
    /\ nextCacheEntry <= Len(commitCache)

\* The last step was a call of performTask whose sweep handled an RPC.
SweepHandled ==
    \E n \in 1..Len(eventLog) : eventLog[n].outcome # "transportError"

\* C18 as stated: after a call of performTask whose sweep handled an RPC and
\* met no fatal status, no ready RPC is left in either pipeline.
C18_AsStated ==
    (SweepHandled /\ state # "DONE") =>
        /\ \A k \in 1..Len(prepareRpcs) : ~IsReady(prepareRpcs[k])
        /\ \A k \in 1..Len(decisionRpcs) : ~IsReady(decisionRpcs[k])

\* The entries that RPCs of the given kind have carried so far.
CarriedBy(kind) ==
    {i \in 1..Len(commitCache) :
        IF kind = "prepare" THEN prepareOutcome[i] # "none"
        ELSE decisionOutcome[i] # "none"}

\* Every RPC this step sends carries only entries that follow, in cache
\* order, every entry an earlier RPC of its phase carried.
SentInCacheOrder ==
    \A k \in 1..Len(sentThisCall') :
        \A j \in OpsOf(sentThisCall'[k]) :
            \A i \in CarriedBy(sentThisCall'[k].kind) : i < j

C20_CursorInvariant ==
    /\ state = "PREPARE" =>
           \A i \in 1..Len(commitCache) :
               i < nextCacheEntry => commitCache[i].state = "PREPARE"
    /\ state = "DECISION" =>
           \A i \in 1..Len(commitCache) :
               i < nextCacheEntry => commitCache[i].state = "DECIDE"
    /\ \A i \in 1..Len(commitCache) :
           (state \in {"PREPARE", "DECISION"}
                /\ commitCache[i].state = "PENDING") => nextCacheEntry <= i

\* A retry has reverted an entry that is not the first of the cache, while
\* an entry before it stays claimed: the cursor is back at the head.
C20_Witness ==
    /\ state \in {"PREPARE", "DECISION"}
    /\ nextCacheEntry = 1
    /\ \E n \in 1..Len(eventLog) : IsRetry(eventLog[n])
    /\ \E i \in 2..Len(commitCache) :
           /\ commitCache[i].state = "PENDING"
           /\ commitCache[1].state # "PENDING"

\* The decision RPCs a step has to do with: the ones performTask sent, the
\* ones in the pipeline, and the ones the step handled.
DecisionHeaders ==
    {sentThisCall[k].rpc.decision :
        k \in {j \in 1..Len(sentThisCall) : sentThisCall[j].kind = "decision"}}
    \cup {decisionRpcs[k].decision : k \in 1..Len(decisionRpcs)}
    \cup {eventLog[k].rpc.decision :
        k \in {j \in 1..Len(eventLog) : eventLog[j].kind = "decision"}}

\* C21: the header of every decision RPC, first sent or re-sent after a
\* retry, holds the task's decision field; that value is COMMIT or ABORT, it
\* is COMMIT only if every vote processed was COMMIT, and from the first
\* decision RPC on neither decision nor the votes processed change, so that
\* all the headers of a run agree with each other and with decision at DONE.
C21_OneDecisionInEveryRpc ==
    [][/\ \A d \in DecisionHeaders' :
              /\ d = decision'
              /\ d \in {"COMMIT", "ABORT"}
              /\ d = "COMMIT" => votesProcessed' \subseteq {"COMMIT"}
       /\ DecisionLaunched =>
              /\ DecisionLaunched'
              /\ decision' = decision
              /\ votesProcessed' = votesProcessed]_vars

\* After an ABORT vote, a performTask call has handled a decision RPC that
\* asked for a retry and has sent one of its entries again, with ABORT in
\* the header of both.
C21_Witness ==
    /\ state = "DECISION"
    /\ decision = "ABORT"
    /\ \E n \in 1..Len(eventLog), k \in 1..Len(sentThisCall) :
           /\ eventLog[n].kind = "decision"
           /\ IsRetry(eventLog[n])
           /\ eventLog[n].rpc.decision = "ABORT"
           /\ sentThisCall[k].kind = "decision"
           /\ sentThisCall[k].rpc.decision = "ABORT"
           /\ OpsOf(eventLog[n]) \cap OpsOf(sentThisCall[k]) # {}

====
